---- MODULE Spec2Model ----
(***************************************************************************)
(* Model of http_wrapper.py: the HTTP front end that translates POST       *)
(* /add_device into one "load_browser_item" command on an                  *)
(* AbletonConnection.  HTTPServer is single threaded, so one request is    *)
(* handled completely (handler construction, do_GET / do_POST /            *)
(* do_OPTIONS, response) before the next one starts: one action per        *)
(* request.                                                                *)
(*                                                                         *)
(* Text that the code transforms (device names, item URIs) is a tuple of   *)
(* one-character strings; text that the code only passes along (paths,     *)
(* error messages, header names and values) is a TLA+ string.              *)
(*                                                                         *)
(* Record constructors list their fields in the order in which the field   *)
(* names first occur in this module, which is the order TLC keeps them in. *)
(***************************************************************************)
EXTENDS Integers, Sequences, FiniteSets, TLC

\* ------------------------------------------------------------------ bounds

\* Requests served in one run of the server.
MaxRequests == 2

\* Longest device name drawn from Alphabet (the named ones are longer).
MaxNameLen == 2

\* Distinct values the remote endpoint may return from send_command.
NumResults == 2

\* Largest track_index a request carries (0 is always included).
MaxTrack == 1

\* ----------------------------------------------------------------- request

\* What the handler sees of a request: the method that selects do_GET,
\* do_POST or do_OPTIONS, self.path, and the request body.
Request(method, path, body) == [method |-> method, path |-> path, body |-> body]

\* ------------------------------------------------------- JSON body values

\* A member of the decoded JSON object: missing key, null, number, string.
JAbsent == [tag |-> "absent"]
JNull == [tag |-> "null"]
JInt(i) == [tag |-> "int", ival |-> i]
JStr(s) == [tag |-> "str", sval |-> s]

\* Python's None is what json.loads gives for null.
None == JNull

\* dict.get(key): None when the key is missing.
dict_get(data, key) == IF data[key].tag = "absent" THEN None ELSE data[key]

\* Python truth value "not v" for the JSON values above.
Falsy(v) ==
    \/ v.tag = "null"
    \/ v.tag = "int" /\ v.ival = 0
    \/ v.tag = "str" /\ v.sval = <<>>

\* ------------------------------------------------------------ str.replace

\* s.replace(old, new) for a non-empty old: leftmost occurrences, no overlap.
RECURSIVE str_replace(_, _, _)
str_replace(s, old, new) ==
    IF Len(s) < Len(old) THEN s
    ELSE IF SubSeq(s, 1, Len(old)) = old
         THEN new \o str_replace(SubSeq(s, Len(old) + 1, Len(s)), old, new)
         ELSE <<Head(s)>> \o str_replace(Tail(s), old, new)

\* ------------------------------------------------------------ the resolver

\* 'query:Audio%20Effects#Ableton#'
UriPrefix ==
    <<"q","u","e","r","y",":","A","u","d","i","o","%","2","0",
      "E","f","f","e","c","t","s","#","A","b","l","e","t","o","n","#">>

EQ_Eight == <<"E","Q"," ","E","i","g","h","t">>
Compressor == <<"C","o","m","p","r","e","s","s","o","r">>
Reverb == <<"R","e","v","e","r","b">>
Delay == <<"D","e","l","a","y">>

\* The dict literal of add_device.
device_uris ==
    (EQ_Eight :> (UriPrefix \o <<"E","Q","%","2","0","E","i","g","h","t">>))
    @@ (Compressor :> (UriPrefix \o Compressor))
    @@ (Reverb :> (UriPrefix \o Reverb))
    @@ (Delay :> (UriPrefix \o Delay))

\* Variant: the name is interpolated as it is, spaces included.
device_uri_unencoded(name) ==
    IF name \in DOMAIN device_uris /\ device_uris[name] # <<>>
    THEN device_uris[name]
    ELSE UriPrefix \o name

\* device_uris.get(name), then the f-string when that is None or ''.
device_uri(name) ==
    IF name \in DOMAIN device_uris /\ device_uris[name] # <<>>
    THEN device_uris[name]
    ELSE UriPrefix \o str_replace(name, <<" ">>, <<"%","2","0">>)

\* ------------------------------------------------- the connection handle

\* What the remote side does with a command: send_command returns a value
\* or raises an error carrying a message.
Returns(r) == [kind |-> "return", returned |-> r]
Raises(m) == [kind |-> "raise", raised |-> m]

Results == {[loaded |-> TRUE, item |-> i] : i \in 1..NumResults}

SendErrors == {"Not connected to Ableton", "Unknown error from Ableton"}

Outcomes == {Returns(r) : r \in Results} \cup {Raises(m) : m \in SendErrors}

\* One call of AbletonConnection.send_command(command_type, params) whose
\* outcome is out.
send_command(command_type, params, out) ==
    [command |-> command_type, args |-> params, outcome |-> out]

\* -------------------------------------------------------------- add_device

\* Result of a Python call: the value returned or the exception raised,
\* with the send_command calls made on the way.
Return(v, made) == [ok |-> TRUE, calls |-> made, value |-> v]
Raise(m, made) == [ok |-> FALSE, calls |-> made, message |-> m]

ValidationMessage == "track_index and device_name required"

\* s.strip() for the blank character.
RECURSIVE str_strip(_)
str_strip(s) ==
    IF s = <<>> THEN s
    ELSE IF Head(s) = " " THEN str_strip(Tail(s))
    ELSE IF s[Len(s)] = " " THEN str_strip(SubSeq(s, 1, Len(s) - 1))
    ELSE s

\* Variant: "not track_index", which also rejects index 0.
fields_missing_truthy(track_index, device_name) ==
    Falsy(track_index) \/ Falsy(device_name)

\* Variant: only device_name is looked at.
fields_missing_name_only(track_index, device_name) ==
    Falsy(device_name)

\* Variant: device_name is stripped before the test.
fields_missing_stripped(track_index, device_name) ==
    \/ track_index = None
    \/ Falsy(device_name)
    \/ device_name.tag = "str" /\ str_strip(device_name.sval) = <<>>

\* The "if track_index is None or not device_name" test.
fields_missing(track_index, device_name) ==
    track_index = None \/ Falsy(device_name)

\* Variant: a send that raises is tried once more before giving up.
add_device_retry(data, out) ==
    LET track_index == dict_get(data, "track_index")
        device_name == dict_get(data, "device_name")
    IN  IF fields_missing(track_index, device_name)
        THEN Raise(ValidationMessage, <<>>)
        ELSE IF device_name.tag # "str"
        THEN Raise("'int' object has no attribute 'replace'", <<>>)
        ELSE LET call == send_command("load_browser_item",
                            [track_index |-> track_index,
                             item_uri |-> device_uri(device_name.sval)],
                            out)
             IN  IF out.kind = "return"
                 THEN Return(out.returned, <<call>>)
                 ELSE Raise(out.raised, <<call, call>>)

add_device(data, out) ==
    LET track_index == dict_get(data, "track_index")
        device_name == dict_get(data, "device_name")
    IN  IF fields_missing(track_index, device_name)
        THEN Raise(ValidationMessage, <<>>)
        ELSE IF device_name.tag # "str"
        THEN \* device_uris.get gives None, then int has no replace()
             Raise("'int' object has no attribute 'replace'", <<>>)
        ELSE LET call == send_command("load_browser_item",
                            [track_index |-> track_index,
                             item_uri |-> device_uri(device_name.sval)],
                            out)
             IN  IF out.kind = "return"
                 THEN Return(out.returned, <<call>>)
                 ELSE Raise(out.raised, <<call>>)

\* -------------------------------------------------------------- responses

CorsHeaders ==
    << <<"Access-Control-Allow-Origin", "*">>,
       <<"Access-Control-Allow-Methods", "GET, POST, OPTIONS">>,
       <<"Access-Control-Allow-Headers", "Content-Type">> >>

\* HTTP field names are case-insensitive; this is the spelling the code sends.
ContentType == "Content-type"

\* Variant: the Access-Control-Allow-Headers line is left out.
send_json_response_short(status_code, data) ==
    [status |-> status_code,
     headers |-> << <<ContentType, "application/json">> >> \o SubSeq(CorsHeaders, 1, 2),
     wfile |-> <<data>>]

\* send_response, the four send_header calls, end_headers, one write of
\* json.dumps(data).  wfile is the sequence of payloads written.
send_json_response(status_code, data) ==
    [status |-> status_code,
     headers |-> << <<ContentType, "application/json">> >> \o CorsHeaders,
     wfile |-> <<data>>]

\* What a handler method leaves behind: the response and the calls made.
Handled(resp, made) == [calls |-> made, response |-> resp]

NotFound == [error |-> "Endpoint not found"]

\* Variant: /health reports on the connection by sending it a command.
do_GET_probing(path, out) ==
    IF path = "/health"
    THEN LET call == send_command("get_session_info", JNull, out)
         IN  IF out.kind = "return"
             THEN Handled(send_json_response(200, [status |-> "ok"]), <<call>>)
             ELSE Handled(send_json_response(500, [error |-> out.raised]), <<call>>)
    ELSE Handled(send_json_response(404, NotFound), <<>>)

do_GET(path, out) ==
    IF path = "/health"
    THEN Handled(send_json_response(200, [status |-> "ok"]), <<>>)
    ELSE Handled(send_json_response(404, NotFound), <<>>)

do_OPTIONS(path, out) ==
    Handled([status |-> 200, headers |-> CorsHeaders, wfile |-> <<>>], <<>>)

\* ------------------------------------------------------------ request body

\* The three steps before routing in do_POST, each of which can raise:
\* int(Content-Length), rfile.read + decode, json.loads.
JsonError == "Expecting value: line 1 column 1 (char 0)"

read_body(body) ==
    CASE body.kind = "bad_length" ->
            Raise("invalid literal for int() with base 10: 'x'", <<>>)
      [] body.kind \in {"absent", "empty", "not_json"} -> Raise(JsonError, <<>>)
      [] OTHER -> Return(body, <<>>)

do_POST(path, body, out) ==
    LET data == read_body(body)
    IN  IF ~data.ok
        THEN Handled(send_json_response(500, [error |-> data.message]), <<>>)
        ELSE IF path = "/add_device"
        THEN IF body.kind # "object"
             THEN Handled(send_json_response(500,
                      [error |-> "'list' object has no attribute 'get'"]), <<>>)
             ELSE LET res == add_device(body, out)
                  IN  IF res.ok
                      THEN Handled(send_json_response(200,
                               [success |-> TRUE, result |-> res.value]),
                               res.calls)
                      ELSE Handled(send_json_response(500,
                               [error |-> res.message]), res.calls)
        ELSE Handled(send_json_response(404, NotFound), <<>>)

\* AbletonHandler.__init__: every handler builds its own AbletonConnection.
AbletonHandler_init(n) == n + 1

\* ------------------------------------------------------------------ inputs

\* The optional 'category' member is read into a local that add_device never
\* uses again, so request bodies do not carry it here.

Paths == {"/health", "/add_device", "/remove_device"}

Alphabet == {" ", "a", "#"}

RECURSIVE SeqsUpTo(_)
SeqsUpTo(n) ==
    IF n = 0 THEN {<<>>}
    ELSE LET shorter == SeqsUpTo(n - 1)
         IN  shorter \cup {Append(s, c) : s \in {t \in shorter : Len(t) = n - 1},
                                          c \in Alphabet}

My_Custom_FX == <<"M","y"," ","C","u","s","t","o","m"," ","F","X">>

\* Table keys, near misses of table keys, the spec's example, short names.
DeviceNames ==
    DOMAIN device_uris
    \cup {My_Custom_FX,
          <<"e","q"," ","e","i","g","h","t">>,
          Append(Reverb, " "),
          <<" ">> \o Delay}
    \cup SeqsUpTo(MaxNameLen)

TrackValues == {JAbsent, JNull} \cup {JInt(i) : i \in 0..MaxTrack}

NameValues == {JAbsent, JNull, JInt(0), JInt(5)} \cup {JStr(s) : s \in DeviceNames}

Bodies ==
    {[kind |-> k] : k \in {"absent", "empty", "not_json", "bad_length", "array"}}
    \cup {[kind |-> "object", track_index |-> t, device_name |-> d] :
            t \in TrackValues, d \in NameValues}

NoBody == [kind |-> "absent"]

\* Paths other than /add_device are posted one body of each kind: do_POST
\* reads nothing of a body there beyond whether it parses.
SampleBodies ==
    {b \in Bodies : b.kind = "object" =>
                        b.track_index = JInt(0) /\ b.device_name = JStr(Reverb)}

PostInputs ==
    {<<path, body>> \in Paths \X Bodies :
        path = "/add_device" \/ body \in SampleBodies}

\* ------------------------------------------------------------------- state

VARIABLES
    handled,      \* requests served so far
    constructed,  \* AbletonConnection objects constructed so far
    request,      \* the request served last
    outcome,      \* what the remote side does during that request
    response,     \* the response sent for it
    calls,        \* the send_command calls made while serving it
    lastSend      \* how the most recent send_command of the process ended

vars == <<handled, constructed, request, outcome, response, calls, lastSend>>

NoRequest == Request("NONE", "", NoBody)

NoResponse == [status |-> 0, headers |-> <<>>, wfile |-> <<>>]

\* main(): HTTPServer(('localhost', port), AbletonHandler) is built and
\* serve_forever() waits; no handler exists yet.
Init ==
    /\ handled = 0
    /\ constructed = 0
    /\ request = NoRequest
    /\ outcome \in Outcomes
    /\ response = NoResponse
    /\ calls = <<>>
    /\ lastSend = "never"

\* One request: the server instantiates AbletonHandler, whose __init__
\* builds the connection and then runs the do_ method to completion.
Serve(method, path, body, out, h) ==
    /\ handled < MaxRequests
    /\ handled' = handled + 1
    /\ constructed' = AbletonHandler_init(constructed)
    /\ request' = Request(method, path, body)
    /\ outcome' = out
    /\ response' = h.response
    /\ calls' = h.calls
    /\ lastSend' = IF h.calls = <<>> THEN lastSend
                   ELSE IF h.calls[Len(h.calls)].outcome.kind = "return"
                        THEN "returned" ELSE "raised"

GetRequest ==
    \E path \in Paths, out \in Outcomes :
        Serve("GET", path, NoBody, out, do_GET(path, out))

PostRequest ==
    \E input \in PostInputs, out \in Outcomes :
        Serve("POST", input[1], input[2], out, do_POST(input[1], input[2], out))

OptionsRequest ==
    \E path \in Paths, out \in Outcomes :
        Serve("OPTIONS", path, NoBody, out, do_OPTIONS(path, out))

Next == GetRequest \/ PostRequest \/ OptionsRequest

Spec == Init /\ [][Next]_vars

\* ------------------------------------------------------- request classes

IsObject == request.body.kind = "object"

PostAddDevice == request.method = "POST" /\ request.path = "/add_device"

\* track_index present and non-null.
TrackGiven == request.body.track_index.tag \notin {"absent", "null"}

\* device_name is a string.
NameIsString == request.body.device_name.tag = "str"

\* POST /add_device with a JSON object, a track_index and a non-empty
\* string device_name.
ValidAddDevice ==
    /\ PostAddDevice
    /\ IsObject
    /\ TrackGiven
    /\ NameIsString
    /\ request.body.device_name.sval # <<>>

\* The response carries exactly one JSON document {"error": <message>}.
ErrorPayload ==
    /\ Len(response.wfile) = 1
    /\ DOMAIN response.wfile[1] = {"error"}

HasHeader(name, value) ==
    \E i \in DOMAIN response.headers : response.headers[i] = <<name, value>>

HasCors ==
    /\ HasHeader("Access-Control-Allow-Origin", "*")
    /\ HasHeader("Access-Control-Allow-Methods", "GET, POST, OPTIONS")
    /\ HasHeader("Access-Control-Allow-Headers", "Content-Type")

HasJsonContentType == HasHeader(ContentType, "application/json")

\* --------------------------------------------------------------------- C1

\* C1: a POST to /add_device with a JSON object, a track_index (0 included)
\* and a non-empty device_name, served while the connection returns r, makes
\* exactly one send_command call, "load_browser_item" with the request's
\* track_index and the resolved address, and answers 200 with
\* {"success": true, "result": r}.
C1_ValidAddDeviceSendsOnce ==
    (ValidAddDevice /\ outcome.kind = "return") =>
        /\ Len(calls) = 1
        /\ calls[1].command = "load_browser_item"
        /\ calls[1].args = [track_index |-> request.body.track_index,
                            item_uri |-> device_uri(request.body.device_name.sval)]
        /\ response.status = 200
        /\ response.wfile = <<[success |-> TRUE, result |-> outcome.returned]>>

C1_Witness ==
    /\ ValidAddDevice
    /\ outcome.kind = "return"
    /\ request.body.track_index = JInt(0)
    /\ response.status = 200
    /\ Len(calls) = 1

\* --------------------------------------------------------------------- C2

\* C2: a POST to /add_device whose JSON object lacks track_index or has it
\* null, or whose device_name is missing or the empty string, answers 500
\* with an {"error": message} payload and makes no send_command call.
C2_InvalidFieldsNoSend ==
    (/\ PostAddDevice
     /\ IsObject
     /\ \/ ~TrackGiven
        \/ request.body.device_name.tag = "absent"
        \/ request.body.device_name = JStr(<<>>))
    => /\ response.status = 500
       /\ ErrorPayload
       /\ calls = <<>>

C2_Witness ==
    /\ PostAddDevice
    /\ IsObject
    /\ request.body.track_index.tag = "absent"
    /\ NameIsString
    /\ request.body.device_name.sval = Reverb
    /\ response.status = 500
    /\ response.wfile = <<[error |-> ValidationMessage]>>

\* --------------------------------------------------------------------- C3

\* C3: when send_command raises with message m during a validated POST to
\* /add_device, the answer is 500 with {"error": m} and send_command was
\* called exactly once.
C3_SendErrorVerbatimNoRetry ==
    (ValidAddDevice /\ outcome.kind = "raise") =>
        /\ response.status = 500
        /\ response.wfile = <<[error |-> outcome.raised]>>
        /\ Len(calls) = 1

C3_Witness ==
    /\ ValidAddDevice
    /\ outcome.kind = "raise"
    /\ response.status = 500
    /\ Len(calls) = 1
    /\ calls[1].outcome = outcome

\* --------------------------------------------------------------------- C4

\* C4: every GET to a path other than /health and every POST to a path other
\* than /add_device, whatever the body, answers 404 with
\* {"error": "Endpoint not found"} and makes no send_command call.
C4_UnregisteredIs404 ==
    (\/ request.method = "GET" /\ request.path # "/health"
     \/ request.method = "POST" /\ request.path # "/add_device")
    => /\ response.status = 404
       /\ response.wfile = <<NotFound>>
       /\ calls = <<>>

\* --------------------------------------------------------------------- C5

\* C5: once requests have been handled, exactly one AbletonConnection has
\* been constructed by the process.
C5_OneConnectionHandle == handled >= 1 => constructed = 1

\* --------------------------------------------------------------------- C6

\* A non-empty string of blanks only.
BlankName(name) == name # <<>> /\ \A i \in DOMAIN name : name[i] = " "

BlankNameRequest ==
    /\ PostAddDevice
    /\ IsObject
    /\ TrackGiven
    /\ NameIsString
    /\ BlankName(request.body.device_name.sval)

\* C6 as stated: a device_name of blanks only fails validation with 500 and
\* no send_command call.
C6_BlankNameRejected ==
    BlankNameRequest => response.status = 500 /\ calls = <<>>

RECURSIVE Repeat(_, _)
Repeat(s, n) == IF n = 0 THEN <<>> ELSE s \o Repeat(s, n - 1)

\* C6 amended: device_name is not trimmed.  A device_name of blanks only
\* passes validation: send_command is called once, with one %20 per blank
\* after the address prefix, and the answer is the connection's (200 with its
\* result, or 500 with its message), never the validation error.
C6_BlankNameAccepted ==
    BlankNameRequest =>
        /\ Len(calls) = 1
        /\ calls[1].args.item_uri =
               UriPrefix \o Repeat(<<"%","2","0">>, Len(request.body.device_name.sval))
        /\ outcome.kind = "return" => response.status = 200
        /\ outcome.kind = "raise" =>
               /\ response.status = 500
               /\ response.wfile = <<[error |-> outcome.raised]>>

C6_Witness ==
    /\ BlankNameRequest
    /\ request.body.device_name.sval = <<" ">>
    /\ Len(calls) = 1
    /\ response.status = 200

\* --------------------------------------------------------------------- C7

Responded == request.method \in {"GET", "POST", "OPTIONS"}

\* C7 as stated: every response carries Content-Type: application/json and
\* the three CORS headers.
C7_AllResponsesJsonAndCors ==
    Responded => HasJsonContentType /\ HasCors

\* C7 amended: every response carries the three CORS headers; the GET and
\* POST responses (200, 404, 500) also carry Content-Type: application/json,
\* the OPTIONS response carries no Content-Type header.
C7_CorsAlwaysJsonUnlessOptions ==
    Responded =>
        /\ HasCors
        /\ request.method \in {"GET", "POST"} => HasJsonContentType
        /\ request.method = "OPTIONS" =>
               \A i \in DOMAIN response.headers : response.headers[i][1] # ContentType

C7_Witness ==
    /\ request.method = "POST"
    /\ response.status = 500
    /\ HasJsonContentType
    /\ HasCors

\* --------------------------------------------------------------------- C8

\* The reference resolver, character by character.
EncodeChar(c) == IF c = " " THEN <<"%","2","0">> ELSE <<c>>

RECURSIVE EncodeSpaces(_)
EncodeSpaces(name) ==
    IF name = <<>> THEN <<>>
    ELSE EncodeSpaces(SubSeq(name, 1, Len(name) - 1)) \o EncodeChar(name[Len(name)])

Template == <<"q","u","e","r","y",":","A","u","d","i","o","%","2","0",
              "E","f","f","e","c","t","s","#","A","b","l","e","t","o","n","#">>

ReferenceAddress(name) ==
    CASE name = <<"E","Q"," ","E","i","g","h","t">> ->
            Template \o <<"E","Q","%","2","0","E","i","g","h","t">>
      [] name = <<"C","o","m","p","r","e","s","s","o","r">> ->
            Template \o <<"C","o","m","p","r","e","s","s","o","r">>
      [] name = <<"R","e","v","e","r","b">> -> Template \o <<"R","e","v","e","r","b">>
      [] name = <<"D","e","l","a","y">> -> Template \o <<"D","e","l","a","y">>
      [] OTHER -> Template \o EncodeSpaces(name)

\* C8: for every non-empty device_name the address sent is the table's value
\* when the name is exactly a table key, and otherwise
\* "query:Audio%20Effects#Ableton#" followed by the name with each space
\* replaced by "%20"; "My Custom FX" gives
\* "query:Audio%20Effects#Ableton#My%20Custom%20FX".
C8_ResolverMatchesReference ==
    ValidAddDevice =>
        /\ Len(calls) = 1
        /\ calls[1].args.item_uri = ReferenceAddress(request.body.device_name.sval)
        /\ request.body.device_name.sval = My_Custom_FX =>
               calls[1].args.item_uri =
                   Template \o <<"M","y","%","2","0","C","u","s","t","o","m","%","2","0","F","X">>

C8_Witness ==
    /\ ValidAddDevice
    /\ request.body.device_name.sval = My_Custom_FX
    /\ Len(calls) = 1
    /\ calls[1].args.item_uri =
           Template \o <<"M","y","%","2","0","C","u","s","t","o","m","%","2","0","F","X">>

\* --------------------------------------------------------------------- C9

\* C9: GET /health answers 200 with {"status": "ok"} and makes no
\* send_command call, whatever became of the connection before.
C9_HealthAlwaysOk ==
    (request.method = "GET" /\ request.path = "/health") =>
        /\ response.status = 200
        /\ response.wfile = <<[status |-> "ok"]>>
        /\ calls = <<>>

C9_Witness ==
    /\ request.method = "GET"
    /\ request.path = "/health"
    /\ lastSend = "raised"
    /\ outcome.kind = "raise"
    /\ response.status = 200

\* -------------------------------------------------------------------- C10

HexDigits ==
    {"0","1","2","3","4","5","6","7","8","9",
     "A","B","C","D","E","F","a","b","c","d","e","f"}

RawReserved == {" ", "#", "%", "/", "?"}

\* Every reserved character of s is the "%" of a %XX escape.
PercentEncoded(s) ==
    \A i \in DOMAIN s :
        \/ s[i] \notin RawReserved
        \/ /\ s[i] = "%"
           /\ i + 2 <= Len(s)
           /\ s[i + 1] \in HexDigits
           /\ s[i + 2] \in HexDigits

\* C10: in every send_command call the item_uri is non-empty and the part of
\* it that comes from device_name is percent-encoded: no raw space, '#', '%',
\* '/' or '?'.
C10_ItemUriPercentEncoded ==
    \A i \in DOMAIN calls :
        /\ calls[i].args.item_uri # <<>>
        /\ PercentEncoded(SubSeq(calls[i].args.item_uri, Len(UriPrefix) + 1,
                                 Len(calls[i].args.item_uri)))

====
